---- MODULE Spec2Model ----
(***************************************************************************)
(* Verification model of the conversation-memory manager                   *)
(* (discord_llm_bot/conversation/memory.py) and of the Wikipedia RAG       *)
(* helper (ajsgptrag/src: wikipedia_retriever.py, vector_store.py,         *)
(* rag_system.py).                                                         *)
(*                                                                         *)
(* One module, several specifications over the same variables:             *)
(*   SpecMem    MemoryManager.prepare_context on bounded histories         *)
(*   SpecChunk  WikipediaRetriever.chunk_text on bounded texts             *)
(*   Spec       VectorStore + WikipediaRAG.retrieve_context, one caller    *)
(*   SpecConc   VectorStore shared by several threads                      *)
(*   SpecMisuse add_embeddings with and without its precondition           *)
(*   SpecFormat WikipediaRAG.format_context on bounded chunk lists         *)
(*   SpecOptimize  MemoryManager.optimize_conversation_history             *)
(*   SpecBot    ConversationManager.generate_response with RAG             *)
(*   SpecDim    VectorStore constructed with any embedding_dim             *)
(*   SpecLLM    LLMClient.generate_chat_completion under its retry         *)
(*   SpecChunkLoop  chunk_text, one loop pass per step                     *)
(***************************************************************************)
EXTENDS Integers, Sequences, FiniteSets, TLC

VARIABLES
    \* ---- MemoryManager (memory.py) ----
    messages,               \* the caller's database messages, oldest first
    system_prompt,          \* Optional[str] argument of prepare_context
    context_window_tokens,  \* ConversationConfig.context_window_tokens
    max_history,            \* ConversationConfig.max_history
    encoder,                \* MemoryManager.encoder: "tiktoken" or None
    prepared,               \* outcome of the last prepare_context call
    \* ---- WikipediaRetriever.chunk_text (wikipedia_retriever.py, config.py) ----
    text,                   \* the cleaned article text, a sequence of characters
    CHUNK_SIZE,             \* config.CHUNK_SIZE
    CHUNK_OVERLAP,          \* config.CHUNK_OVERLAP
    MAX_CHUNKS_PER_ARTICLE, \* config.MAX_CHUNKS_PER_ARTICLE
    chunked,                \* outcome of the last chunk_text call
    loop,                   \* chunk_text's locals while its loop runs
    \* ---- VectorStore (vector_store.py) and WikipediaRAG (rag_system.py) ----
    embedding_dim,          \* VectorStore.embedding_dim
    index,                  \* VectorStore.index: dimension d and the stored rows
    metadata,               \* VectorStore.metadata: the chunk list
    index_file,             \* the file at VECTOR_DB_PATH
    metadata_file,          \* the file at METADATA_PATH
    last,                   \* outcome of the last store / retrieval operation
    \* ---- callers sharing one VectorStore (vector_store.py:14) ----
    pc,                     \* per thread: the statement its call has reached
    local,                  \* per thread: the locals of its call
    \* ---- WikipediaRAG.format_context (rag_system.py, config.py) ----
    format_chunks,          \* the chunks argument of format_context
    MAX_CONTEXT_LENGTH,     \* config.MAX_CONTEXT_LENGTH
    formatted,              \* outcome of the last format_context call
    \* ---- MemoryManager.optimize_conversation_history (memory.py) ----
    history,                \* the caller's message objects, oldest first
    optimized,              \* outcome of the last call: the returned list holds
                            \* references, given as positions in history
    \* ---- the bot: ConversationManager (manager.py), LLMClient (client.py) ----
    reply,                  \* outcome of the last generate_response call
    llm                     \* the generate_chat_completion call in progress and
                            \* the requests the LLM API has seen

memVars == <<messages, system_prompt, context_window_tokens, max_history,
             encoder, prepared>>

chunkVars == <<text, CHUNK_SIZE, CHUNK_OVERLAP, MAX_CHUNKS_PER_ARTICLE, chunked, loop>>

storeVars == <<embedding_dim, index, metadata, index_file, metadata_file, last>>

threadVars == <<pc, local>>

formatVars == <<format_chunks, MAX_CONTEXT_LENGTH, formatted>>

optVars == <<history, optimized>>

botVars == <<reply, llm>>

vars == <<memVars, chunkVars, storeVars, threadVars, formatVars, optVars, botVars>>

None == "None"

Max2(a, b) == IF a >= b THEN a ELSE b
Min2(a, b) == IF a <= b THEN a ELSE b

(***************************************************************************)
(* Bounds of the memory model.                                             *)
(***************************************************************************)
MaxMsgs == 3
MaxWindow == 24
WindowStep == 6
MaxHistoryBound == 2

(***************************************************************************)
(* Strings are modelled by what the code looks at: the number of leading / *)
(* trailing whitespace characters (pad), the number of characters that     *)
(* remain after str.strip() (body) and the number of tokens tiktoken's     *)
(* cl100k_base encoding gives for the stripped text (bpe).                 *)
(***************************************************************************)
Str(pad, body, bpe) == [pad |-> pad, body |-> body, bpe |-> bpe]
\* the absent value of an Optional[str] (Python None), distinct from ""
NoneStr == Str(0, 0, -1)
EmptyStr == Str(0, 0, 0)
BlankStr == Str(2, 0, 0)
ShortStr == Str(0, 4, 1)
LongStr == Str(1, 16, 3)

StrLen(s) == s.pad + s.body
strip(s) == Str(0, s.body, s.bpe)

MsgTexts == {BlankStr, ShortStr, LongStr}
PromptTexts == {NoneStr, EmptyStr, BlankStr, ShortStr, LongStr}
Roles == {"user", "assistant"}

\* database.models.Message, as far as prepare_context reads it
Message == [role : Roles, content : MsgTexts, is_deleted : BOOLEAN]

RECURSIVE SeqsUpTo(_, _)
SeqsUpTo(S, n) ==
    IF n = 0 THEN {<<>>}
    ELSE LET shorter == SeqsUpTo(S, n - 1)
         IN shorter \cup {Append(s, x) : s \in {t \in shorter : Len(t) = n - 1}, x \in S}

Windows == {w \in 1..MaxWindow : w % WindowStep = 0}

(***************************************************************************)
(* memory.py:63-81  count_tokens                                           *)
(***************************************************************************)
count_tokens(enc, txt) ==
    IF enc # None THEN txt.bpe
    ELSE Max2(1, StrLen(txt) \div 4)

\* llm/models.py:22-59  ChatMessage(role=..., content=...): the validator
\* strips the content; name defaults to None
ChatMessage(role, content) == [role |-> role, content |-> strip(content), name |-> NoneStr]

\* llm/models.py:39-59  content has min_length=1 and may not be blank
ContentValid(content) == content.body > 0

(***************************************************************************)
(* memory.py:83-103  count_message_tokens                                  *)
(***************************************************************************)
count_message_tokens(enc, message) ==
    LET content_tokens == count_tokens(enc, message.content)
        overhead_tokens == 4 + (IF message.name # NoneStr THEN count_tokens(enc, message.name) ELSE 0)
    IN content_tokens + overhead_tokens

RECURSIVE SumTokens(_, _)
SumTokens(enc, msgs) ==
    IF msgs = <<>> THEN 0
    ELSE count_message_tokens(enc, Head(msgs)) + SumTokens(enc, Tail(msgs))

(***************************************************************************)
(* memory.py:105-123  count_messages_tokens                                *)
(***************************************************************************)
count_messages_tokens(enc, msgs) == SumTokens(enc, msgs) + 10

(***************************************************************************)
(* memory.py:219-230  the backward walk of _apply_truncation_strategy:     *)
(* i is the index of the message looked at, result what was taken so far.  *)
(***************************************************************************)
\* a slip that passes over a message that does not fit and goes on with the
\* older ones: continue where the code has break
RECURSIVE TakeRecent_SkipsOver(_, _, _, _, _, _)
TakeRecent_SkipsOver(enc, msgs, i, available_tokens, used_tokens, result_messages) ==
    IF i = 0 THEN result_messages
    ELSE LET message_tokens == count_message_tokens(enc, msgs[i])
         IN IF used_tokens + message_tokens <= available_tokens
            THEN TakeRecent_SkipsOver(enc, msgs, i - 1, available_tokens,
                                      used_tokens + message_tokens,
                                      <<msgs[i]>> \o result_messages)
            ELSE TakeRecent_SkipsOver(enc, msgs, i - 1, available_tokens,
                                      used_tokens, result_messages)

RECURSIVE TakeRecent(_, _, _, _, _, _)
TakeRecent(enc, msgs, i, available_tokens, used_tokens, result_messages) ==
    IF i = 0 THEN result_messages
    ELSE LET message_tokens == count_message_tokens(enc, msgs[i])
         IN IF used_tokens + message_tokens <= available_tokens
            THEN TakeRecent(enc, msgs, i - 1, available_tokens,
                            used_tokens + message_tokens, <<msgs[i]>> \o result_messages)
            ELSE result_messages

\* a slip that keeps the oldest n instead: list[:n]
LastN_FromFront(s, n) == IF Len(s) <= n THEN s ELSE SubSeq(s, 1, n)

\* Python's list[-n:] for n >= 1
LastN(s, n) == IF Len(s) <= n THEN s ELSE SubSeq(s, Len(s) - n + 1, Len(s))

\* a slip that leaves out the max_history cut
apply_truncation_strategy_NoCap(enc, msgs, available_tokens, maxh) ==
    IF msgs = <<>> THEN <<>>
    ELSE TakeRecent(enc, msgs, Len(msgs), available_tokens, 0, <<>>)

(***************************************************************************)
(* memory.py:197-250  _apply_truncation_strategy                           *)
(***************************************************************************)
apply_truncation_strategy(enc, msgs, available_tokens, maxh) ==
    IF msgs = <<>> THEN <<>>
    ELSE LET result_messages == TakeRecent(enc, msgs, Len(msgs), available_tokens, 0, <<>>)
         IN IF Len(result_messages) > maxh
            THEN LastN(result_messages, maxh)
            ELSE result_messages

RECURSIVE ConvertMessages(_)
\* memory.py:161-172  database messages to chat messages, deleted ones skipped
ConvertMessages(msgs) ==
    IF msgs = <<>> THEN <<>>
    ELSE IF Head(msgs).is_deleted THEN ConvertMessages(Tail(msgs))
    ELSE <<ChatMessage(Head(msgs).role, Head(msgs).content)>> \o ConvertMessages(Tail(msgs))

\* Python truthiness of Optional[str]
Truthy(s) == s # NoneStr /\ StrLen(s) > 0

\* a slip that selects the history against the whole window
prepare_context_WholeWindow(enc, msgs, sp, window, maxh) ==
    LET live == SelectSeq(msgs, LAMBDA m : ~m.is_deleted)
        invalid == \/ (Truthy(sp) /\ ~ContentValid(sp))
                   \/ \E i \in 1..Len(live) : ~ContentValid(live[i].content)
        chat_messages == IF Truthy(sp) THEN <<ChatMessage("system", sp)>> ELSE <<>>
        final == chat_messages \o
                 apply_truncation_strategy(enc, ConvertMessages(msgs), window, maxh)
    IN IF invalid
       THEN [status |-> "raised", error |-> "ValidationError",
             chat_messages |-> <<>>, total_tokens |-> 0]
       ELSE [status |-> "returned", error |-> None,
             chat_messages |-> final, total_tokens |-> count_messages_tokens(enc, final)]

(***************************************************************************)
(* memory.py:125-195  prepare_context.  The outcome is either the returned *)
(* pair or the exception that left the call.                               *)
(***************************************************************************)
prepare_context(enc, msgs, sp, window, maxh) ==
    LET live == SelectSeq(msgs, LAMBDA m : ~m.is_deleted)
        invalid == \/ (Truthy(sp) /\ ~ContentValid(sp))
                   \/ \E i \in 1..Len(live) : ~ContentValid(live[i].content)
        chat_messages == IF Truthy(sp) THEN <<ChatMessage("system", sp)>> ELSE <<>>
        all_messages == ConvertMessages(msgs)
        available_tokens == window - (IF chat_messages # <<>>
                                      THEN count_message_tokens(enc, chat_messages[1])
                                      ELSE 0)
        context_messages == apply_truncation_strategy(enc, all_messages, available_tokens, maxh)
        final == chat_messages \o context_messages
    IN IF invalid
       THEN [status |-> "raised", error |-> "ValidationError",
             chat_messages |-> <<>>, total_tokens |-> 0]
       ELSE [status |-> "returned", error |-> None,
             chat_messages |-> final, total_tokens |-> count_messages_tokens(enc, final)]

NotCalled == [status |-> "none", error |-> None, chat_messages |-> <<>>, total_tokens |-> 0]

(***************************************************************************)
(* Bounds of the chunking model.  The configured values (600 / 100 / 15)   *)
(* are scaled down: the configuration is an input drawn from               *)
(* 1..MaxChunkSize, 0..MaxChunkOverlap and 1..MaxChunkCap.                 *)
(***************************************************************************)
MaxTextLen == 7
MaxChunkSize == 6
MaxChunkOverlap == 1
MaxChunkCap == 3

\* the three classes of characters chunk_text tells apart
Chars == {"a", ".", " "}

\* wikipedia_retriever.py:66-110  WikipediaChunk
WikipediaChunk(txt, title, url, chunk_id, start_pos, end_pos) ==
    [text |-> txt, title |-> title, url |-> url, chunk_id |-> chunk_id,
     start_pos |-> start_pos, end_pos |-> end_pos]

\* Python text[lo:hi] for 0 <= lo and hi <= len(text), positions 0-based
Slice(t, lo, hi) == IF hi <= lo THEN <<>> ELSE SubSeq(t, lo + 1, hi)

\* Python text.rfind('.', lo, hi): the highest 0-based index in
\* [lo, min(hi, len)) that holds a period, -1 when there is none
rfind(t, lo, hi) ==
    LET hits == {i \in lo..(Min2(hi, Len(t)) - 1) : t[i + 1] = "."}
    IN IF hits = {} THEN -1 ELSE CHOOSE i \in hits : \A j \in hits : j <= i

RECURSIVE lstrip(_)
lstrip(t) == IF t # <<>> /\ Head(t) = " " THEN lstrip(Tail(t)) ELSE t

RECURSIVE rstrip(_)
rstrip(t) == IF t # <<>> /\ t[Len(t)] = " " THEN rstrip(SubSeq(t, 1, Len(t) - 1)) ELSE t

\* Python str.strip()
strip_text(t) == rstrip(lstrip(t))

\* a slip that looks for the sentence end in the rest of the text
WindowEnd_RestOfText(t, size, overlap, start) ==
    LET end == Min2(start + size, Len(t))
        sentence_end == rfind(t, start, Len(t))
    IN IF end < Len(t) /\ sentence_end # -1 /\ sentence_end > start + (size \div 2)
       THEN sentence_end + 1
       ELSE end

\* wikipedia_retriever.py:408-415  the end of the window that starts at start
WindowEnd(t, size, overlap, start) ==
    LET end == Min2(start + size, Len(t))
        sentence_end == rfind(t, start, end + overlap)
    IN IF end < Len(t) /\ sentence_end # -1 /\ sentence_end > start + (size \div 2)
       THEN sentence_end + 1
       ELSE end

\* a slip at line 432 that leaves out the max with end
NextStart_NoMax(size, overlap, start, end) == start + size - overlap

\* a slip at line 432: the next window steps back by the overlap from the end
NextStart_StepBack(size, overlap, start, end) == Max2(start + 1, end - overlap)

\* wikipedia_retriever.py:432  the start of the next window
NextStart(size, overlap, start, end) == Max2(start + size - overlap, end)

(***************************************************************************)
(* wikipedia_retriever.py:406-432  the while loop of chunk_text             *)
(***************************************************************************)
RECURSIVE ChunkLoop(_, _, _, _, _, _, _, _, _)
ChunkLoop(t, title, url, size, overlap, cap, start, chunk_id, chunks) ==
    IF ~(start < Len(t) /\ chunk_id < cap) THEN chunks
    ELSE LET end == WindowEnd(t, size, overlap, start)
             piece == strip_text(Slice(t, start, end))
             next == NextStart(size, overlap, start, end)
         IN IF piece # <<>>
            THEN ChunkLoop(t, title, url, size, overlap, cap, next, chunk_id + 1,
                           Append(chunks, WikipediaChunk(piece, title, url, chunk_id, start, end)))
            ELSE ChunkLoop(t, title, url, size, overlap, cap, next, chunk_id, chunks)

\* a slip that strips the short text as the loop strips its windows
chunk_text_StripsShort(t, title, url, size, overlap, cap) ==
    IF Len(t) <= size
    THEN <<WikipediaChunk(strip_text(t), title, url, 0, 0, Len(t))>>
    ELSE ChunkLoop(t, title, url, size, overlap, cap, 0, 0, <<>>)

(***************************************************************************)
(* wikipedia_retriever.py:388-434  chunk_text                               *)
(***************************************************************************)
chunk_text(t, title, url, size, overlap, cap) ==
    IF Len(t) <= size
    THEN <<WikipediaChunk(t, title, url, 0, 0, Len(t))>>
    ELSE ChunkLoop(t, title, url, size, overlap, cap, 0, 0, <<>>)

ArticleTitle == "A"
ArticleUrl == "wiki/A"

\* wikipedia_retriever.py:388-404  chunk_text has not been entered
NoLoop == [pc |-> "entry", start |-> 0, chunk_id |-> 0, chunks |-> <<>>,
           windows |-> 0, dropped |-> 0]

ChunkIdle ==
    /\ text = <<>>
    /\ CHUNK_SIZE = 1
    /\ CHUNK_OVERLAP = 0
    /\ MAX_CHUNKS_PER_ARTICLE = 1
    /\ chunked = [status |-> "none", chunks |-> <<>>]
    /\ loop = NoLoop

(***************************************************************************)
(* Bounds of the vector-store model.  TOP_K_RETRIEVAL (8 in config.py:71)  *)
(* is scaled down so that a store of MaxStored entries can exceed it.      *)
(***************************************************************************)
MaxStored == 3
MaxBatch == 2
MaxTopic == 2
RawNorm == 2
TOP_K_RETRIEVAL == 2

\* config.py:56 and the alternative dimension of vector_store.py:125
EMBEDDING_DIM == 768
OtherDim == 512
Dims == {EMBEDDING_DIM, OtherDim}

(***************************************************************************)
(* Similarity scores are kept in tenths: 0.6 is 6, 0.8 is 8, 1.0 is 10.    *)
(***************************************************************************)
MIN_SIMILARITY_THRESHOLD == 6
auto_index_threshold == 8

(***************************************************************************)
(* A text of the retrieval model is represented by its topic, the one      *)
(* property the embedding model's output depends on.  A vector is a        *)
(* direction (the topic it embeds) and a length; the cosine of two         *)
(* directions falls with their distance.                                   *)
(***************************************************************************)
Topics == 0..MaxTopic
Vector == [dir : Topics, norm : 1..RawNorm]
Abs(x) == IF x < 0 THEN -x ELSE x
Cosine(a, b) == 10 - 3 * Abs(a - b)

\* faiss IndexFlatIP scoring: the inner product, here |u| * |v| * cos(u, v)
InnerProduct(u, v) == u.norm * v.norm * Cosine(u.dir, v.dir)

\* faiss.normalize_L2 on one row: unit length, same direction
normalize_L2(v) == [dir |-> v.dir, norm |-> 1]

NormalizeRows(vs) == [i \in 1..Len(vs) |-> normalize_L2(vs[i])]

\* the articles the fetcher can return chunks of
TitleOf(topic) == IF topic = 0 THEN "A" ELSE "B"
ChunkPool == {WikipediaChunk(t, TitleOf(t), "wiki", 0, 0, 1) : t \in {0, MaxTopic}}

\* the embedding model's output for a text of topic t: not of unit length
\* (model.encode is called without normalize_embeddings)
Encode(t) == [dir |-> t, norm |-> RawNorm]

\* embeddings.py:97-123  embed_query: one vector of the model's dimension
embed_query(q) == [d |-> EMBEDDING_DIM, vecs |-> <<Encode(q)>>]

\* embeddings.py:125-166  embed_passages: one vector per passage
embed_passages(passages) ==
    [d |-> EMBEDDING_DIM, vecs |-> [i \in 1..Len(passages) |-> Encode(passages[i])]]

\* rag_system.py:221  chunk_texts = [chunk.text for chunk in new_chunks]
ChunkTexts(chunks) == [i \in 1..Len(chunks) |-> chunks[i].text]

\* faiss.IndexFlatIP(d): an empty index of dimension d
IndexFlatIP(d) == [d |-> d, vecs |-> <<>>]

\* self.index = None (vector_store.py:132)
NoIndex == [d |-> 0, vecs |-> <<>>]

ntotal(idx) == Len(idx.vecs)

NoIndexFile == [exists |-> FALSE, d |-> 0, vecs |-> <<>>]
NoMetadataFile == [exists |-> FALSE, dicts |-> <<>>]

\* vector_store.py:196-206  the dictionaries written to the metadata file
MetadataDicts(meta) ==
    [i \in 1..Len(meta) |->
        [text |-> meta[i].text, title |-> meta[i].title, url |-> meta[i].url,
         chunk_id |-> meta[i].chunk_id, start_pos |-> meta[i].start_pos,
         end_pos |-> meta[i].end_pos]]

\* vector_store.py:252-262  chunks rebuilt from the dictionaries
ChunksFromDicts(dicts) ==
    [i \in 1..Len(dicts) |->
        WikipediaChunk(dicts[i].text, dicts[i].title, dicts[i].url,
                       dicts[i].chunk_id, dicts[i].start_pos, dicts[i].end_pos)]

(***************************************************************************)
(* vector_store.py:213-264  load_index, as the pair <<index, metadata>>    *)
(* it leaves, from the pair it starts with.                                *)
(***************************************************************************)
load_index(idx, meta, ifile, mfile) ==
    IF ~ifile.exists THEN <<idx, meta>>
    ELSE <<[d |-> ifile.d, vecs |-> ifile.vecs],
           IF mfile.exists THEN ChunksFromDicts(mfile.dicts) ELSE meta>>

(***************************************************************************)
(* vector_store.py:106-160  __init__ and _initialize_index                  *)
(***************************************************************************)
initialize_index(dim, ifile, mfile) ==
    IF ifile.exists THEN load_index(NoIndex, <<>>, ifile, mfile)
    ELSE <<IndexFlatIP(dim), <<>>>>

\* a slip that leaves out the chunks the store already holds
add_embeddings_SkipsStored(dim, idx, meta, embeddings, chunks) ==
    LET new == SelectSeq([i \in 1..Len(chunks) |-> i],
                         LAMBDA i : \A j \in 1..Len(meta) : meta[j] # chunks[i])
    IN [status |-> IF embeddings.d # idx.d THEN "raised" ELSE "returned",
        index |-> IF embeddings.d # idx.d THEN idx
                  ELSE [d |-> idx.d,
                        vecs |-> idx.vecs \o
                                 [k \in 1..Len(new) |-> normalize_L2(embeddings.vecs[new[k]])]],
        metadata |-> IF embeddings.d # idx.d THEN meta
                     ELSE meta \o [k \in 1..Len(new) |-> chunks[new[k]]]]

\* a slip that extends the chunk list twice
add_embeddings_ExtendsTwice(dim, idx, meta, embeddings, chunks) ==
    [status |-> IF embeddings.d # idx.d THEN "raised" ELSE "returned",
     index |-> IF embeddings.d # idx.d THEN idx
               ELSE [d |-> idx.d, vecs |-> idx.vecs \o NormalizeRows(embeddings.vecs)],
     metadata |-> IF embeddings.d # idx.d THEN meta ELSE meta \o chunks \o chunks]

(***************************************************************************)
(* vector_store.py:309-321  add_embeddings: the outcome and the pair       *)
(* <<index, metadata>> it leaves.  faiss's index.add asserts the           *)
(* dimension; nothing compares the two lengths.                            *)
(***************************************************************************)
add_embeddings(dim, idx, meta, embeddings, chunks) ==
    LET idx0 == IF idx = NoIndex THEN IndexFlatIP(dim) ELSE idx
        rows == NormalizeRows(embeddings.vecs)
    IN IF embeddings.d # idx0.d
       THEN [status |-> "raised", index |-> idx0, metadata |-> meta]
       ELSE [status |-> "returned",
             index |-> [d |-> idx0.d, vecs |-> idx0.vecs \o rows],
             metadata |-> meta \o chunks]

\* a slip that returns the first k slots whatever their scores
TopSlots_FirstSlots(scores, k) == {[i \in 1..k |-> i]}

\* the slot orders faiss may return for the k best of the scores: k distinct
\* slots, best first, none left out that beats one taken (ties in any order)
TopSlots(scores, k) ==
    LET n == Len(scores)
    IN {o \in [1..k -> 1..n] :
           /\ \A i, j \in 1..k : i < j => (o[i] # o[j] /\ scores[o[i]] >= scores[o[j]])
           /\ \A s \in 1..n : (\A i \in 1..k : o[i] # s) =>
                                 \A i \in 1..k : scores[o[i]] >= scores[s]}

(***************************************************************************)
(* vector_store.py:368-385  search: the set of outcomes the call can have. *)
(***************************************************************************)
search(idx, meta, query_embedding, k) ==
    IF idx = NoIndex \/ ntotal(idx) = 0
    THEN {[status |-> "returned", results |-> <<>>]}
    ELSE IF query_embedding.d # idx.d
    THEN {[status |-> "raised", results |-> <<>>]}
    ELSE LET qv == normalize_L2(query_embedding.vecs[1])
             scores == [i \in 1..ntotal(idx) |-> InnerProduct(qv, idx.vecs[i])]
         IN {IF \E j \in 1..Len(o) : o[j] > Len(meta)
             THEN [status |-> "raised", results |-> <<>>]
             ELSE [status |-> "returned",
                   results |-> [j \in 1..Len(o) |->
                                   [chunk |-> meta[o[j]], score |-> scores[o[j]]]]]
             : o \in TopSlots(scores, Min2(k, ntotal(idx)))}

(***************************************************************************)
(* vector_store.py:455-462  get_stats                                      *)
(***************************************************************************)
get_stats(idx, meta) ==
    [total_chunks |-> IF idx # NoIndex THEN ntotal(idx) ELSE 0,
     unique_articles |-> Cardinality({meta[i].title : i \in 1..Len(meta)}),
     metadata_count |-> Len(meta)]

\* rag_system.py:206-210, 229-231  zip(*results)
ResultChunks(results) == [i \in 1..Len(results) |-> results[i].chunk]
ResultScores(results) == [i \in 1..Len(results) |-> results[i].score]

RECURSIVE MaxOf(_)
MaxOf(scores) ==
    IF Len(scores) = 1 THEN scores[1] ELSE Max2(Head(scores), MaxOf(Tail(scores)))

\* a slip that tests the worst score where the code tests the best
NeedsIndexing_AnyBelow(chunks, scores) ==
    chunks = <<>> \/ \E i \in 1..Len(scores) : scores[i] < auto_index_threshold

\* a slip that re-indexes on every call
NeedsIndexing_Always(chunks, scores) == TRUE

\* rag_system.py:214  the auto-indexing test
NeedsIndexing(chunks, scores) ==
    chunks = <<>> \/ (scores # <<>> /\ MaxOf(scores) < auto_index_threshold)

\* a slip that filters with the auto-indexing threshold
FilterByThreshold_Auto(chunks, scores) ==
    LET keep == SelectSeq([i \in 1..Min2(Len(chunks), Len(scores)) |-> i],
                          LAMBDA i : scores[i] >= auto_index_threshold)
    IN [chunks |-> [j \in 1..Len(keep) |-> chunks[keep[j]]],
        scores |-> [j \in 1..Len(keep) |-> scores[keep[j]]]]

(***************************************************************************)
(* rag_system.py:235-247  the filter at the end of retrieve_context         *)
(***************************************************************************)
FilterByThreshold(chunks, scores) ==
    IF chunks # <<>> /\ scores # <<>>
    THEN LET keep == SelectSeq([i \in 1..Min2(Len(chunks), Len(scores)) |-> i],
                               LAMBDA i : scores[i] >= MIN_SIMILARITY_THRESHOLD)
         IN [chunks |-> [j \in 1..Len(keep) |-> chunks[keep[j]]],
             scores |-> [j \in 1..Len(keep) |-> scores[keep[j]]]]
    ELSE [chunks |-> chunks, scores |-> scores]

\* the outcome of the last operation on the store or the RAG system
NoOp == [op |-> "none", status |-> "none", failed |-> "none",
         chunks |-> <<>>, scores |-> <<>>, first |-> <<>>, searched |-> <<>>,
         fetched |-> <<>>, dim |-> 0, nvecs |-> 0, nchunks |-> 0, query |-> -1,
         steps |-> <<>>]

(***************************************************************************)
(* WikipediaRAG.format_context.  Strings are sequences of characters, so   *)
(* that len() and the join are computed as Python computes them.           *)
(***************************************************************************)
\* bounds: the longest list of arbitrary chunks, the longest list of equal
\* chunks, the length of the long chunk text, and the two limits tried for
\* MAX_CONTEXT_LENGTH (2000 in config.py:73)
MaxFormatChunks == 3
MaxRun == 19
LongTextLen == 20
SmallLimit == 40
LargeLimit == 315

NoContext == <<"N", "o", " ", "r", "e", "l", "e", "v", "a", "n", "t", " ",
               "c", "o", "n", "t", "e", "x", "t", " ",
               "a", "v", "a", "i", "l", "a", "b", "l", "e", ".">>

DigitChars == <<"0", "1", "2", "3", "4", "5", "6", "7", "8", "9">>

\* str(i) for i >= 0, as the f-string formats the source number
RECURSIVE Digits(_)
Digits(i) == IF i < 10 THEN <<DigitChars[i + 1]>>
             ELSE Digits(i \div 10) \o <<DigitChars[(i % 10) + 1]>>

\* rag_system.py:295  f"[Source {i}: {chunk.title}]"
SourceInfo(i, chunk) ==
    <<"[", "S", "o", "u", "r", "c", "e", " ">> \o Digits(i) \o <<":", " ">>
        \o chunk.title \o <<"]">>

\* rag_system.py:296  f"{source_info}\n{chunk.text}\n"
ChunkContent(i, chunk) == SourceInfo(i, chunk) \o <<"\n">> \o chunk.text \o <<"\n">>

\* a slip that joins with two newlines
RECURSIVE Join_TwoNewlines(_, _)
Join_TwoNewlines(sep, parts) ==
    IF parts = <<>> THEN <<>>
    ELSE IF Len(parts) = 1 THEN parts[1]
    ELSE parts[1] \o sep \o sep \o Join_TwoNewlines(sep, Tail(parts))

\* rag_system.py:305  sep.join(parts)
RECURSIVE Join(_, _)
Join(sep, parts) ==
    IF parts = <<>> THEN <<>>
    ELSE IF Len(parts) = 1 THEN parts[1]
    ELSE parts[1] \o sep \o Join(sep, Tail(parts))

\* a slip that goes on to the next chunk where the code breaks
RECURSIVE FormatLoop_Continue(_, _, _, _, _)
FormatLoop_Continue(chunks, i, context_parts, total_length, limit) ==
    IF i > Len(chunks) THEN context_parts
    ELSE LET chunk_content == ChunkContent(i, chunks[i])
         IN IF total_length + Len(chunk_content) > limit
            THEN FormatLoop_Continue(chunks, i + 1, context_parts, total_length, limit)
            ELSE FormatLoop_Continue(chunks, i + 1, Append(context_parts, chunk_content),
                                     total_length + Len(chunk_content), limit)

\* rag_system.py:294-303  the loop over enumerate(chunks, 1)
RECURSIVE FormatLoop(_, _, _, _, _)
FormatLoop(chunks, i, context_parts, total_length, limit) ==
    IF i > Len(chunks) THEN context_parts
    ELSE LET chunk_content == ChunkContent(i, chunks[i])
         IN IF total_length + Len(chunk_content) > limit
            THEN context_parts
            ELSE FormatLoop(chunks, i + 1, Append(context_parts, chunk_content),
                            total_length + Len(chunk_content), limit)

(***************************************************************************)
(* rag_system.py:288-305  format_context: the returned string and the      *)
(* number of chunks it took (len(context_parts)).                          *)
(***************************************************************************)
format_context(chunks, limit) ==
    IF chunks = <<>>
    THEN [status |-> "returned", output |-> NoContext, included |-> 0]
    ELSE LET context_parts == FormatLoop(chunks, 1, <<>>, 0, limit)
         IN [status |-> "returned", output |-> Join(<<"\n">>, context_parts),
             included |-> Len(context_parts)]

FormatIdle ==
    /\ format_chunks = <<>>
    /\ MAX_CONTEXT_LENGTH = LargeLimit
    /\ formatted = [status |-> "none", output |-> <<>>, included |-> 0]

(***************************************************************************)
(* MemoryManager.optimize_conversation_history.  The method works on the   *)
(* caller's message objects: objs is their state, the returned list refers *)
(* to them by position.                                                    *)
(***************************************************************************)
\* bounds: the length of the history and the largest token_count
MaxOptMsgs == 3
MaxTokenCount == 2

OptContents == {<<"a">>, <<"b">>}
OptMessage == [role : Roles, content : OptContents, token_count : 1..MaxTokenCount,
               is_deleted : BOOLEAN]

\* memory.py:298-314  the loop: i is the message looked at, optimized_list
\* the references collected, last_role the role of the last one kept
RECURSIVE OptimizeLoop(_, _, _, _)
OptimizeLoop(objs, i, optimized_list, last_role) ==
    IF i > Len(objs) THEN [objects |-> objs, result |-> optimized_list]
    ELSE LET message == objs[i]
         IN IF message.is_deleted
            THEN OptimizeLoop(objs, i + 1, optimized_list, last_role)
            ELSE IF message.role = last_role /\ optimized_list # <<>>
            THEN LET k == optimized_list[Len(optimized_list)]
                     merged == [objs[k] EXCEPT
                                   !.content = @ \o <<"\n", "\n">> \o message.content,
                                   !.token_count = @ + message.token_count]
                 IN OptimizeLoop([objs EXCEPT ![k] = merged], i + 1,
                                 optimized_list, last_role)
            ELSE OptimizeLoop(objs, i + 1, Append(optimized_list, i), message.role)

\* memory.py:279-316  optimize_conversation_history
optimize_conversation_history(objs) ==
    IF objs = <<>> THEN [objects |-> objs, result |-> <<>>]
    ELSE OptimizeLoop(objs, 1, <<>>, None)

OptIdle ==
    /\ history = <<>>
    /\ optimized = [status |-> "none", result |-> <<>>]

\* manager.py:300-520  no generate_response call has been made
NoReply == [status |-> "none", text |-> "none", prompt |-> "none",
            calls |-> <<>>, retrieval |-> NoOp,
            rag_result |-> [some |-> FALSE, raised |-> FALSE, chunks |-> <<>>]]

\* client.py:122-138  no generate_chat_completion call has been made: the
\* state of the last call, how the network answered each of its attempts,
\* and every request the LLM API has been sent
NoCall == [status |-> "none", attempt |-> 0, error |-> "none",
           results |-> <<>>, requests |-> <<>>]

BotIdle ==
    /\ reply = NoReply
    /\ llm = NoCall

\* bound: the number of threads that share the store
NumThreads == 2

Threads == 1..NumThreads

\* the locals of a call on the store: the chunks argument of add_embeddings,
\* the (slot, score) pairs index.search returned, what the call found when it
\* started (torn: index.ntotal differed from len(metadata)) and how it ended
NoLocals == [chunks |-> <<>>, hits |-> <<>>, torn |-> FALSE, status |-> "none",
             results |-> <<>>]

ThreadIdle ==
    /\ pc = [t \in Threads |-> "idle"]
    /\ local = [t \in Threads |-> NoLocals]

StoreIdle ==
    /\ embedding_dim = EMBEDDING_DIM
    /\ index = IndexFlatIP(EMBEDDING_DIM)
    /\ metadata = <<>>
    /\ index_file = NoIndexFile
    /\ metadata_file = NoMetadataFile
    /\ last = NoOp
    /\ ThreadIdle
    /\ FormatIdle
    /\ OptIdle
    /\ BotIdle

(***************************************************************************)
(* SpecMem: the inputs of one call are drawn from the bounded sets, then   *)
(* the call is made.                                                       *)
(***************************************************************************)
InitMem ==
    /\ messages \in SeqsUpTo(Message, MaxMsgs)
    /\ system_prompt \in PromptTexts
    /\ context_window_tokens \in Windows
    /\ max_history \in 1..MaxHistoryBound
    /\ encoder \in {"tiktoken", None}
    /\ prepared = NotCalled
    /\ ChunkIdle
    /\ StoreIdle

PrepareContext ==
    /\ prepared.status = "none"
    /\ prepared' = prepare_context(encoder, messages, system_prompt,
                                   context_window_tokens, max_history)
    /\ UNCHANGED <<messages, system_prompt, context_window_tokens, max_history, encoder>>
    /\ UNCHANGED <<botVars, chunkVars, storeVars, threadVars, formatVars, optVars>>

NextMem == PrepareContext

SpecMem == InitMem /\ [][NextMem]_vars

MemIdle ==
    /\ messages = <<>>
    /\ system_prompt = NoneStr
    /\ context_window_tokens = 1
    /\ max_history = 1
    /\ encoder = None
    /\ prepared = NotCalled

(***************************************************************************)
(* SpecChunk: a text and a configuration are drawn from the bounded sets,  *)
(* then chunk_text is applied.                                             *)
(***************************************************************************)
InitChunk ==
    /\ text \in SeqsUpTo(Chars, MaxTextLen)
    /\ CHUNK_SIZE \in 1..MaxChunkSize
    /\ CHUNK_OVERLAP \in 0..MaxChunkOverlap
    /\ MAX_CHUNKS_PER_ARTICLE \in 1..MaxChunkCap
    /\ chunked = [status |-> "none", chunks |-> <<>>]
    /\ loop = NoLoop
    /\ MemIdle
    /\ StoreIdle

ChunkText ==
    /\ chunked.status = "none"
    /\ chunked' = [status |-> "returned",
                   chunks |-> chunk_text(text, ArticleTitle, ArticleUrl, CHUNK_SIZE, CHUNK_OVERLAP,
                                         MAX_CHUNKS_PER_ARTICLE)]
    /\ UNCHANGED <<text, CHUNK_SIZE, CHUNK_OVERLAP, MAX_CHUNKS_PER_ARTICLE, loop>>
    /\ UNCHANGED <<botVars, memVars, storeVars, threadVars, formatVars, optVars>>

NextChunk == ChunkText

SpecChunk == InitChunk /\ [][NextChunk]_vars

(***************************************************************************)
(* SpecChunkLoop: chunk_text one statement group at a time, so that every  *)
(* pass of its while loop is a step.  The loop runs to its end once        *)
(* entered; nothing else is scheduled.                                     *)
(***************************************************************************)
\* bound: the longest text given to the stepwise chunk_text
MaxLoopTextLen == 4

InitChunkLoop ==
    /\ text \in SeqsUpTo(Chars, MaxLoopTextLen)
    /\ CHUNK_SIZE \in 1..MaxChunkSize
    /\ CHUNK_OVERLAP \in 0..MaxChunkOverlap
    /\ MAX_CHUNKS_PER_ARTICLE \in 1..MaxChunkCap
    /\ chunked = [status |-> "none", chunks |-> <<>>]
    /\ loop = NoLoop
    /\ MemIdle
    /\ StoreIdle

\* wikipedia_retriever.py:388-404  the short text returns at once; a longer
\* one sets chunk_id = 0 and start = 0
Enter ==
    /\ loop.pc = "entry"
    /\ IF Len(text) <= CHUNK_SIZE
       THEN /\ chunked' = [status |-> "returned",
                           chunks |-> <<WikipediaChunk(text, ArticleTitle, ArticleUrl, 0, 0, Len(text))>>]
            /\ loop' = [loop EXCEPT !.pc = "done"]
       ELSE /\ loop' = [loop EXCEPT !.pc = "while"]
            /\ UNCHANGED chunked

\* a slip that counts every window, kept or dropped
NextChunkId_CountsDropped(chunk_id, piece) == chunk_id + 1

\* wikipedia_retriever.py:420-429  chunk_id += 1 is inside 'if chunk_text:'
NextChunkId(chunk_id, piece) == IF piece # <<>> THEN chunk_id + 1 ELSE chunk_id

\* wikipedia_retriever.py:406-432  one pass of the while loop
Pass ==
    /\ loop.pc = "while"
    /\ loop.start < Len(text) /\ loop.chunk_id < MAX_CHUNKS_PER_ARTICLE
    /\ LET end == WindowEnd(text, CHUNK_SIZE, CHUNK_OVERLAP, loop.start)
           piece == strip_text(Slice(text, loop.start, end))
           next == NextStart(CHUNK_SIZE, CHUNK_OVERLAP, loop.start, end)
       IN loop' = IF piece # <<>>
                  THEN [loop EXCEPT !.start = next,
                                    !.chunk_id = NextChunkId(loop.chunk_id, piece),
                                    !.chunks = Append(loop.chunks,
                                        WikipediaChunk(piece, ArticleTitle, ArticleUrl,
                                                       loop.chunk_id, loop.start, end)),
                                    !.windows = loop.windows + 1]
                  ELSE [loop EXCEPT !.start = next,
                                    !.chunk_id = NextChunkId(loop.chunk_id, piece),
                                    !.windows = loop.windows + 1,
                                    !.dropped = loop.dropped + 1]
    /\ UNCHANGED chunked

\* wikipedia_retriever.py:406, 434  the loop condition fails: return chunks
Leave ==
    /\ loop.pc = "while"
    /\ ~(loop.start < Len(text) /\ loop.chunk_id < MAX_CHUNKS_PER_ARTICLE)
    /\ chunked' = [status |-> "returned", chunks |-> loop.chunks]
    /\ loop' = [loop EXCEPT !.pc = "done"]

NextChunkLoop ==
    (Enter \/ Pass \/ Leave)
    /\ UNCHANGED <<text, CHUNK_SIZE, CHUNK_OVERLAP, MAX_CHUNKS_PER_ARTICLE>>
    /\ UNCHANGED <<botVars, memVars, storeVars, threadVars, formatVars, optVars>>

SpecChunkLoop == InitChunkLoop /\ [][NextChunkLoop]_vars /\ WF_vars(NextChunkLoop)

\* vector_store.py:189-211  save_index, as the pair of files it leaves
save_index(idx, meta, ifile, mfile) ==
    IF idx = NoIndex THEN <<ifile, mfile>>
    ELSE <<[exists |-> TRUE, d |-> idx.d, vecs |-> idx.vecs],
           [exists |-> TRUE, dicts |-> MetadataDicts(meta)]>>

\* vector_store.py:193  save_index stopped after faiss.write_index and before
\* the metadata file is opened
save_index_interrupted(idx, meta, ifile, mfile) ==
    IF idx = NoIndex THEN <<ifile, mfile>>
    ELSE <<[exists |-> TRUE, d |-> idx.d, vecs |-> idx.vecs], mfile>>

\* vector_store.py:415-417  clear, as the pair <<index, metadata>> it leaves
\* a slip that resets the index only
clear_IndexOnly(idx, meta) == <<IndexFlatIP(EMBEDDING_DIM), meta>>

clear(idx, meta) == <<IndexFlatIP(EMBEDDING_DIM), <<>>>>

(***************************************************************************)
(* wikipedia_retriever.py:436-526  retrieve_and_chunk: the collaborator    *)
(* returns any list of chunks (bounded by the room left in the model's     *)
(* store) or fails with an exception search_wikipedia does not catch       *)
(* (wikipedia_retriever.py:214-220 catches WikipediaException only).       *)
(***************************************************************************)
retrieve_and_chunk(idx, meta) ==
    {[status |-> "raised", chunks |-> <<>>]} \cup
    {[status |-> "returned", chunks |-> c] :
        c \in {x \in SeqsUpTo(ChunkPool, MaxBatch) :
                  /\ ntotal(idx) + Len(x) <= MaxStored
                  /\ Len(meta) + Len(x) <= MaxStored}}

\* rag_system.py:200-229  the collaborators retrieve_context calls, in the
\* order of the code; a call makes the first n of them
Steps == <<"embed_query", "search", "retrieve_and_chunk", "embed_passages",
           "add_embeddings", "save_index", "search">>

(***************************************************************************)
(* rag_system.py:200-247  retrieve_context: the set of outcomes of one     *)
(* call for query topic q, each with the store and the files it leaves.    *)
(***************************************************************************)
retrieve_context(dim, idx, meta, ifile, mfile, q) ==
    LET query_embedding == embed_query(q)
        Outcome(status, failed, sel, first, searched, fetched, idx2, meta2, ifile2, mfile2, n) ==
            [last |-> [NoOp EXCEPT !.op = "retrieve", !.status = status, !.failed = failed,
                                   !.chunks = sel.chunks, !.scores = sel.scores,
                                   !.first = first, !.searched = searched,
                                   !.fetched = fetched, !.query = q,
                                   !.steps = SubSeq(Steps, 1, n)],
             index |-> idx2, metadata |-> meta2,
             index_file |-> ifile2, metadata_file |-> mfile2]
        Nothing == [chunks |-> <<>>, scores |-> <<>>]
        \* rag_system.py:228-245  the second search and the filter
        AfterSave(r1, new_chunks, a, files) ==
            {IF r2.status = "raised"
             THEN Outcome("raised", "search", Nothing, r1.results, <<>>, new_chunks,
                          a.index, a.metadata, files[1], files[2], 7)
             ELSE LET chunks == IF r2.results # <<>> THEN ResultChunks(r2.results)
                                ELSE ResultChunks(r1.results)
                      scores == IF r2.results # <<>> THEN ResultScores(r2.results)
                                ELSE ResultScores(r1.results)
                  IN Outcome("returned", "none", FilterByThreshold(chunks, scores),
                             r1.results, r2.results, new_chunks,
                             a.index, a.metadata, files[1], files[2], 7)
             : r2 \in search(a.index, a.metadata, query_embedding, TOP_K_RETRIEVAL)}
        \* rag_system.py:223-224  add_embeddings, then save_index
        AfterEmbed(r1, new_chunks, embeddings) ==
            LET a == add_embeddings(dim, idx, meta, embeddings, new_chunks)
            IN IF a.status = "raised"
               THEN {Outcome("raised", "add", Nothing, r1.results, r1.results, new_chunks,
                             idx, meta, ifile, mfile, 5)}
               ELSE {Outcome("raised", "save", Nothing, r1.results, r1.results, new_chunks,
                             a.index, a.metadata, ifile, mfile, 6),
                     Outcome("raised", "save", Nothing, r1.results, r1.results, new_chunks,
                             a.index, a.metadata,
                             save_index_interrupted(a.index, a.metadata, ifile, mfile)[1],
                             mfile, 6)}
                    \cup AfterSave(r1, new_chunks, a,
                                   save_index(a.index, a.metadata, ifile, mfile))
        \* rag_system.py:218-233  the re-index attempt
        AfterFetch(r1, f) ==
            IF f.status = "raised"
            THEN {Outcome("raised", "fetch", Nothing, r1.results, r1.results, <<>>,
                          idx, meta, ifile, mfile, 3)}
            ELSE IF f.chunks = <<>>
            THEN {Outcome("returned", "none",
                          FilterByThreshold(ResultChunks(r1.results), ResultScores(r1.results)),
                          r1.results, r1.results, <<>>, idx, meta, ifile, mfile, 3)}
            ELSE {Outcome("raised", "embed", Nothing, r1.results, r1.results, f.chunks,
                          idx, meta, ifile, mfile, 4)}
                 \cup AfterEmbed(r1, f.chunks, embed_passages(ChunkTexts(f.chunks)))
        \* rag_system.py:204-216  the first search and the auto-indexing test
        AfterFirst(r1) ==
            IF r1.status = "raised"
            THEN {Outcome("raised", "search", Nothing, <<>>, <<>>, <<>>,
                          idx, meta, ifile, mfile, 2)}
            ELSE IF ~NeedsIndexing(ResultChunks(r1.results), ResultScores(r1.results))
            THEN {Outcome("returned", "none",
                          FilterByThreshold(ResultChunks(r1.results), ResultScores(r1.results)),
                          r1.results, r1.results, <<>>, idx, meta, ifile, mfile, 2)}
            ELSE UNION {AfterFetch(r1, f) : f \in retrieve_and_chunk(idx, meta)}
    IN UNION {AfterFirst(r1) : r1 \in search(idx, meta, query_embedding, TOP_K_RETRIEVAL)}

(***************************************************************************)
(* Spec: one VectorStore with its two files, used through its own methods  *)
(* and through WikipediaRAG.retrieve_context by one caller at a time.      *)
(* Callers pass add_embeddings as many chunks as vectors.                  *)
(***************************************************************************)
Init ==
    /\ MemIdle
    /\ ChunkIdle
    /\ embedding_dim = EMBEDDING_DIM
    /\ index = IndexFlatIP(embedding_dim)
    /\ metadata = <<>>
    /\ index_file = NoIndexFile
    /\ metadata_file = NoMetadataFile
    /\ last = NoOp
    /\ ThreadIdle
    /\ FormatIdle
    /\ OptIdle
    /\ BotIdle

Done(op, status) == [NoOp EXCEPT !.op = op, !.status = status]

\* the store is constructed again with the same embedding_dim, as after a
\* restart of the application
Construct ==
    LET r == initialize_index(embedding_dim, index_file, metadata_file)
    IN /\ index' = r[1]
       /\ metadata' = r[2]
       /\ last' = Done("construct", "returned")
       /\ UNCHANGED <<embedding_dim, index_file, metadata_file>>

LoadIndex ==
    LET r == load_index(index, metadata, index_file, metadata_file)
    IN /\ index' = r[1]
       /\ metadata' = r[2]
       /\ last' = Done("load", "returned")
       /\ UNCHANGED <<embedding_dim, index_file, metadata_file>>

\* add_embeddings(embeddings, chunks) with the embeddings of the passages src
Add(src, chunks, d) ==
    LET embeddings == [d |-> d, vecs |-> embed_passages(ChunkTexts(src)).vecs]
        a == add_embeddings(embedding_dim, index, metadata, embeddings, chunks)
    IN /\ ntotal(index) + Len(src) <= MaxStored
       /\ Len(metadata) + Len(chunks) <= MaxStored
       /\ index' = a.index
       /\ metadata' = a.metadata
       /\ last' = [Done("add", a.status) EXCEPT !.dim = d, !.nvecs = Len(src),
                                                !.nchunks = Len(chunks),
                                                !.fetched = chunks,
                                                !.failed = IF a.status = "raised" THEN "add" ELSE "none"]
       /\ UNCHANGED <<embedding_dim, index_file, metadata_file>>

Batches == SeqsUpTo(ChunkPool, MaxBatch) \ {<<>>}

AddEmbeddings ==
    \E chunks \in Batches, d \in Dims : Add(chunks, chunks, d)

Search ==
    \E q \in Topics, d \in Dims, k \in 1..MaxStored :
        \E r \in search(index, metadata, [d |-> d, vecs |-> <<Encode(q)>>], k) :
            /\ last' = [Done("search", r.status) EXCEPT !.searched = r.results,
                                                       !.dim = d, !.nvecs = k,
                                                       !.query = q]
            /\ UNCHANGED <<embedding_dim, index, metadata, index_file, metadata_file>>

Clear ==
    LET r == clear(index, metadata)
    IN /\ index' = r[1]
       /\ metadata' = r[2]
       /\ last' = Done("clear", "returned")
       /\ UNCHANGED <<embedding_dim, index_file, metadata_file>>

SaveIndex ==
    LET files == save_index(index, metadata, index_file, metadata_file)
    IN /\ index_file' = files[1]
       /\ metadata_file' = files[2]
       /\ last' = Done("save", "returned")
       /\ UNCHANGED <<embedding_dim, index, metadata>>

SaveIndexInterrupted ==
    LET files == save_index_interrupted(index, metadata, index_file, metadata_file)
    IN /\ index_file' = files[1]
       /\ metadata_file' = files[2]
       /\ last' = [Done("save", "raised") EXCEPT !.failed = "save"]
       /\ UNCHANGED <<embedding_dim, index, metadata>>

RetrieveContext ==
    \E q \in Topics :
        \E o \in retrieve_context(embedding_dim, index, metadata, index_file, metadata_file, q) :
            /\ index' = o.index
            /\ metadata' = o.metadata
            /\ index_file' = o.index_file
            /\ metadata_file' = o.metadata_file
            /\ last' = o.last
            /\ UNCHANGED embedding_dim

\* the caller takes the outcome of the operation (rag_system.py:353); the
\* next operation starts after that
TakeResult ==
    /\ last.op # "none"
    /\ last' = NoOp
    /\ UNCHANGED <<embedding_dim, index, metadata, index_file, metadata_file>>

StoreStep ==
    \/ Construct
    \/ LoadIndex
    \/ AddEmbeddings
    \/ Search
    \/ Clear
    \/ SaveIndex
    \/ SaveIndexInterrupted
    \/ RetrieveContext

Next ==
    ((last.op = "none" /\ StoreStep) \/ TakeResult)
    /\ UNCHANGED <<botVars, memVars, chunkVars, threadVars, formatVars, optVars>>

Spec == Init /\ [][Next]_vars

\* add_embeddings called with a number of chunks that differs from the
\* number of vectors
AddMismatched ==
    \E src \in Batches, chunks \in SeqsUpTo(ChunkPool, MaxBatch), d \in Dims :
        /\ Len(src) # Len(chunks)
        /\ Add(src, chunks, d)

\* SpecMisuse: add_embeddings with and without its precondition, on a store
\* that is filled and cleared
NextMisuse ==
    ((last.op = "none" /\ (AddEmbeddings \/ AddMismatched \/ Clear)) \/ TakeResult)
    /\ UNCHANGED <<botVars, memVars, chunkVars, threadVars, formatVars, optVars>>

SpecMisuse == Init /\ [][NextMisuse]_vars

(***************************************************************************)
(* SpecConc: threads call add_embeddings, search and clear on one shared   *)
(* VectorStore (vector_store.py:14 "Thread-safe operations").  The methods *)
(* take no lock, so a thread switch can fall between any two statements    *)
(* that touch self.index and self.metadata; each such statement is a step. *)
(***************************************************************************)
Goto(t, label) == pc' = [pc EXCEPT ![t] = label]

Torn == ntotal(index) # Len(metadata)

\* vector_store.py:312-316  normalize_L2(embeddings); self.index.add(embeddings)
AddIndex(t) ==
    \E chunks \in Batches :
        /\ pc[t] = "idle"
        /\ ntotal(index) + Len(chunks) <= MaxStored
        /\ Len(metadata) + Len(chunks) <= MaxStored
        /\ index' = [d |-> index.d,
                     vecs |-> index.vecs \o NormalizeRows(embed_passages(ChunkTexts(chunks)).vecs)]
        /\ local' = [local EXCEPT ![t] = [NoLocals EXCEPT !.chunks = chunks, !.torn = Torn]]
        /\ Goto(t, "add_extend")
        /\ UNCHANGED metadata

\* vector_store.py:319  self.metadata.extend(chunks)
AddExtend(t) ==
    /\ pc[t] = "add_extend"
    /\ metadata' = metadata \o local[t].chunks
    /\ local' = [local EXCEPT ![t].status = "returned"]
    /\ Goto(t, "return")
    /\ UNCHANGED index

\* vector_store.py:368-378  the emptiness test and self.index.search
SearchIndex(t) ==
    \E q \in Topics :
        /\ pc[t] = "idle"
        /\ IF ntotal(index) = 0
           THEN /\ local' = [local EXCEPT ![t] = [NoLocals EXCEPT !.torn = Torn,
                                                                 !.status = "returned"]]
                /\ Goto(t, "return")
           ELSE LET qv == normalize_L2(embed_query(q).vecs[1])
                    scores == [i \in 1..ntotal(index) |-> InnerProduct(qv, index.vecs[i])]
                IN \E o \in TopSlots(scores, Min2(TOP_K_RETRIEVAL, ntotal(index))) :
                      /\ local' = [local EXCEPT ![t] =
                                      [NoLocals EXCEPT !.torn = Torn,
                                                       !.hits = [j \in 1..Len(o) |->
                                                                    [slot |-> o[j], score |-> scores[o[j]]]]]]
                      /\ Goto(t, "search_read")
        /\ UNCHANGED <<index, metadata>>

\* vector_store.py:380-385  the loop that reads self.metadata[idx]
SearchRead(t) ==
    LET hits == local[t].hits
    IN /\ pc[t] = "search_read"
       /\ local' = [local EXCEPT ![t] =
                       IF \E j \in 1..Len(hits) : hits[j].slot > Len(metadata)
                       THEN [@ EXCEPT !.status = "raised"]
                       ELSE [@ EXCEPT !.status = "returned",
                                      !.results = [j \in 1..Len(hits) |->
                                                      [chunk |-> metadata[hits[j].slot],
                                                       score |-> hits[j].score]]]]
       /\ Goto(t, "return")
       /\ UNCHANGED <<index, metadata>>

\* vector_store.py:416  self.index = faiss.IndexFlatIP(EMBEDDING_DIM)
ClearIndex(t) ==
    /\ pc[t] = "idle"
    /\ index' = IndexFlatIP(EMBEDDING_DIM)
    /\ local' = [local EXCEPT ![t] = [NoLocals EXCEPT !.torn = Torn]]
    /\ Goto(t, "clear_metadata")
    /\ UNCHANGED metadata

\* vector_store.py:417  self.metadata = []
ClearMetadata(t) ==
    /\ pc[t] = "clear_metadata"
    /\ metadata' = <<>>
    /\ local' = [local EXCEPT ![t].status = "returned"]
    /\ Goto(t, "return")
    /\ UNCHANGED index

\* the call returns to its caller, which makes its next call later
Return(t) ==
    /\ pc[t] = "return"
    /\ local' = [local EXCEPT ![t] = NoLocals]
    /\ Goto(t, "idle")
    /\ UNCHANGED <<index, metadata>>

ThreadStep(t) ==
    \/ AddIndex(t)
    \/ AddExtend(t)
    \/ SearchIndex(t)
    \/ SearchRead(t)
    \/ ClearIndex(t)
    \/ ClearMetadata(t)
    \/ Return(t)

NextConc ==
    /\ \E t \in Threads : ThreadStep(t)
    /\ UNCHANGED <<botVars, memVars, chunkVars, formatVars, optVars, embedding_dim, index_file, metadata_file, last>>

SpecConc == Init /\ [][NextConc]_vars

(***************************************************************************)
(* SpecFormat: a chunk list and a MAX_CONTEXT_LENGTH are drawn from the    *)
(* bounded sets, then format_context is applied.  The lists are all lists  *)
(* of up to MaxFormatChunks chunks of the pool and all runs of up to       *)
(* MaxRun equal chunks.                                                    *)
(***************************************************************************)
Repeated(c, n) == [i \in 1..n |-> c]

FormatTitles == {<<"T">>, <<"P", "y">>}
FormatTexts == {<<"x">>, Repeated("y", LongTextLen)}
FormatPool == {WikipediaChunk(txt, title, ArticleUrl, 0, 0, Len(txt)) :
                  txt \in FormatTexts, title \in FormatTitles}

InitFormat ==
    /\ format_chunks \in SeqsUpTo(FormatPool, MaxFormatChunks)
                           \cup {Repeated(c, n) : c \in FormatPool, n \in 1..MaxRun}
    /\ MAX_CONTEXT_LENGTH \in {SmallLimit, LargeLimit}
    /\ formatted = [status |-> "none", output |-> <<>>, included |-> 0]
    /\ MemIdle
    /\ ChunkIdle
    /\ embedding_dim = EMBEDDING_DIM
    /\ index = IndexFlatIP(EMBEDDING_DIM)
    /\ metadata = <<>>
    /\ index_file = NoIndexFile
    /\ metadata_file = NoMetadataFile
    /\ last = NoOp
    /\ ThreadIdle
    /\ OptIdle
    /\ BotIdle

FormatContext ==
    /\ formatted.status = "none"
    /\ formatted' = format_context(format_chunks, MAX_CONTEXT_LENGTH)
    /\ UNCHANGED <<format_chunks, MAX_CONTEXT_LENGTH>>
    /\ UNCHANGED <<botVars, memVars, chunkVars, storeVars, threadVars, optVars>>

NextFormat == FormatContext

SpecFormat == InitFormat /\ [][NextFormat]_vars

(***************************************************************************)
(* SpecOptimize: a history of message objects is drawn from the bounded    *)
(* sets, then optimize_conversation_history is applied to it.              *)
(***************************************************************************)
InitOptimize ==
    /\ history \in SeqsUpTo(OptMessage, MaxOptMsgs)
    /\ optimized = [status |-> "none", result |-> <<>>]
    /\ MemIdle
    /\ ChunkIdle
    /\ embedding_dim = EMBEDDING_DIM
    /\ index = IndexFlatIP(EMBEDDING_DIM)
    /\ metadata = <<>>
    /\ index_file = NoIndexFile
    /\ metadata_file = NoMetadataFile
    /\ last = NoOp
    /\ ThreadIdle
    /\ FormatIdle
    /\ BotIdle

OptimizeConversationHistory ==
    LET r == optimize_conversation_history(history)
    IN /\ optimized.status = "none"
       /\ history' = r.objects
       /\ optimized' = [status |-> "returned", result |-> r.result]
       /\ UNCHANGED <<botVars, memVars, chunkVars, storeVars, threadVars, formatVars>>

NextOptimize == OptimizeConversationHistory

SpecOptimize == InitOptimize /\ [][NextOptimize]_vars

(***************************************************************************)
(* SpecDim: a VectorStore constructed with any embedding_dim and no files  *)
(* on disk (vector_store.py:106-160), used through add_embeddings, search  *)
(* and clear.                                                              *)
(***************************************************************************)
InitDim ==
    /\ MemIdle
    /\ ChunkIdle
    /\ embedding_dim \in Dims
    /\ index = initialize_index(embedding_dim, NoIndexFile, NoMetadataFile)[1]
    /\ metadata = <<>>
    /\ index_file = NoIndexFile
    /\ metadata_file = NoMetadataFile
    /\ last = NoOp
    /\ ThreadIdle
    /\ FormatIdle
    /\ OptIdle
    /\ BotIdle

NextDim ==
    ((last.op = "none" /\ (AddEmbeddings \/ Search \/ Clear)) \/ TakeResult)
    /\ UNCHANGED <<botVars, memVars, chunkVars, threadVars, formatVars, optVars>>

SpecDim == InitDim /\ [][NextDim]_vars

(***************************************************************************)
(* LLMClient.generate_chat_completion under its tenacity decorator         *)
(* (client.py:122-306).                                                    *)
(***************************************************************************)
\* bound: the number of requests the LLM API is sent in one behaviour
MaxRequests == 5

\* client.py:123  stop=stop_after_attempt(3)
stop_after_attempt == 3

\* how the network answers one request: a completion, an error status, a
\* body that is not JSON, aiohttp.ClientError, asyncio.TimeoutError
NetworkResults == {"completion", "error_status", "bad_json", "ClientError", "TimeoutError"}

Transient == {"ClientError", "TimeoutError"}

\* client.py:193-306  what one run of the function body gives for the answer
\* of the network: the response, or the exception that leaves the body
attempt_once(result) ==
    IF result = "completion" THEN "returned" ELSE "LLMAPIError"

\* client.py:125  retry=retry_if_exception_type((ClientError, TimeoutError))
retry_if_exception_type(outcome) == outcome \in Transient

\* tenacity's loop around the body: results[i] is the network's answer to
\* attempt i
RECURSIVE RetryLoop(_, _)
RetryLoop(results, attempt) ==
    LET outcome == attempt_once(results[attempt])
    IN IF outcome = "returned"
       THEN [status |-> "returned", attempt |-> attempt, error |-> "none"]
       ELSE IF ~retry_if_exception_type(outcome)
       THEN [status |-> "raised", attempt |-> attempt, error |-> outcome]
       ELSE IF attempt >= stop_after_attempt
       THEN [status |-> "raised", attempt |-> attempt, error |-> "RetryError"]
       ELSE RetryLoop(results, attempt + 1)

generate_chat_completion(results) == RetryLoop(results, 1)

InitLLM ==
    /\ MemIdle
    /\ ChunkIdle
    /\ StoreIdle

GenerateChatCompletion ==
    \E results \in [1..stop_after_attempt -> NetworkResults] :
        LET r == generate_chat_completion(results)
        IN /\ llm.status = "none"
           /\ Len(llm.requests) + stop_after_attempt <= MaxRequests
           /\ llm' = [status |-> r.status, attempt |-> r.attempt, error |-> r.error,
                      results |-> SubSeq(results, 1, r.attempt),
                      requests |-> llm.requests \o SubSeq(results, 1, r.attempt)]
           /\ UNCHANGED reply

\* the caller takes the response or handles the error (manager.py:492-531)
TakeCompletion ==
    /\ llm.status # "none"
    /\ llm' = [NoCall EXCEPT !.requests = llm.requests]
    /\ UNCHANGED reply

NextLLM ==
    (GenerateChatCompletion \/ TakeCompletion)
    /\ UNCHANGED <<memVars, chunkVars, storeVars, threadVars, formatVars, optVars>>

SpecLLM == InitLLM /\ [][NextLLM]_vars

\* C23: a call makes at most 3 attempts, every attempt before the last one
\* failed with a transient network failure, and a call that raised after a
\* transient failure of its last attempt had made all 3 attempts.
C23_TransientRetried ==
    llm.status # "none" =>
        /\ llm.attempt <= stop_after_attempt
        /\ \A i \in 1..(llm.attempt - 1) : llm.results[i] \in Transient
        /\ (llm.status = "raised" /\ llm.results[llm.attempt] \in Transient)
               => llm.attempt = stop_after_attempt

\* C22: the dimension of the index is the embedding_dim the store was
\* constructed with, in every state reached by add_embeddings, search and
\* clear.
C22_DimensionKept == index.d = embedding_dim

(***************************************************************************)
(* RAGIntegration.enhance_response and ConversationManager                 *)
(* .generate_response.  The retrieval is the model of retrieve_context     *)
(* above, on the bot's one store; prepare_context and the LLM call are     *)
(* collaborators that return or raise.                                     *)
(***************************************************************************)
\* Optional[Tuple[str, List[str]]]: None is the value with some = FALSE; the
\* context and the sources are built from the chunks
None_ == [some |-> FALSE, raised |-> FALSE, chunks |-> <<>>]

\* a slip that lets the exception of retrieve_context leave enhance_response
enhance_response_Propagates(available, r) ==
    IF ~available THEN None_
    ELSE IF r.status = "raised" THEN [None_ EXCEPT !.raised = TRUE]
    ELSE IF r.chunks = <<>> THEN None_
    ELSE [None_ EXCEPT !.some = TRUE, !.chunks = r.chunks]

\* integration.py:153-199  r is what retrieve_context did
enhance_response(available, r) ==
    IF ~available THEN None_
    ELSE IF r.status = "raised" THEN None_
    ELSE IF r.chunks = <<>> THEN None_
    ELSE [None_ EXCEPT !.some = TRUE, !.chunks = r.chunks]

\* manager.py:406-520  generate_response once the conversation has messages:
\* use_rag is what should_use_rag answered, r what retrieve_context did (NoOp
\* when it was not called), prep and completion how prepare_context and
\* generate_chat_completion ended
generate_response(use_rag, r, prep, completion) ==
    LET rag_result == IF use_rag THEN enhance_response(TRUE, r) ELSE None_
        \* manager.py:406-437  an exception of enhance_response is logged
        prompt == IF ~use_rag THEN "with_conversation"
                  ELSE IF rag_result.some /\ ~rag_result.raised THEN "enhanced"
                  ELSE "default"
        before == <<"should_use_rag">>
                  \o (IF use_rag THEN <<"enhance_response">> ELSE <<>>)
                  \o <<"prepare_context">>
        made == [NoReply EXCEPT !.prompt = prompt, !.retrieval = r,
                                !.rag_result = rag_result]
    IN IF prep = "raised"
       THEN [made EXCEPT !.status = "ConversationError", !.calls = before]
       ELSE IF completion = "raised"
       THEN [made EXCEPT !.status = "LLMAPIError",
                         !.calls = before \o <<"generate_chat_completion">>]
       ELSE [made EXCEPT !.status = "returned", !.text = "completion",
                         !.calls = before \o <<"generate_chat_completion">>]

\* manager.py:352-360  a conversation without messages is greeted
greeting == [NoReply EXCEPT !.status = "returned", !.text = "greeting"]

Ends == {"returned", "raised"}

InitBot ==
    /\ MemIdle
    /\ ChunkIdle
    /\ StoreIdle

Greet ==
    /\ reply' = greeting
    /\ UNCHANGED storeVars

AnswerWithoutRAG ==
    \E prep \in Ends, completion \in Ends :
        /\ reply' = generate_response(FALSE, NoOp, prep, completion)
        /\ UNCHANGED storeVars

AnswerWithRAG ==
    \E q \in Topics, prep \in Ends, completion \in Ends :
        \E o \in retrieve_context(embedding_dim, index, metadata, index_file, metadata_file, q) :
            /\ reply' = generate_response(TRUE, o.last, prep, completion)
            /\ index' = o.index
            /\ metadata' = o.metadata
            /\ index_file' = o.index_file
            /\ metadata_file' = o.metadata_file
            /\ UNCHANGED <<embedding_dim, last>>

\* the three ways through the one handler
GenerateResponse ==
    /\ reply.status = "none"
    /\ (Greet \/ AnswerWithoutRAG \/ AnswerWithRAG)
    /\ UNCHANGED llm

\* the Discord handler sends the reply or reports the error
TakeReply ==
    /\ reply.status # "none"
    /\ reply' = NoReply
    /\ UNCHANGED <<storeVars, llm>>

NextBot ==
    (GenerateResponse \/ TakeReply)
    /\ UNCHANGED <<memVars, chunkVars, threadVars, formatVars, optVars>>

SpecBot == InitBot /\ [][NextBot]_vars

\* C21: when retrieve_context raised, enhance_response returned None, the
\* prompt is the un-enhanced one, prepare_context was called after it, the LLM
\* is called whenever prepare_context returned, and the call ends with the
\* completion unless prepare_context or the LLM itself failed.
C21_RetrievalFailureTolerated ==
    (reply.status # "none" /\ reply.retrieval.status = "raised") =>
        /\ reply.rag_result = None_
        /\ reply.prompt = "default"
        /\ SubSeq(reply.calls, 1, 3) = <<"should_use_rag", "enhance_response", "prepare_context">>
        /\ (reply.status = "ConversationError") <=> (Len(reply.calls) = 3)
        /\ (Len(reply.calls) = 4) => reply.calls[4] = "generate_chat_completion"
        /\ reply.status \in {"returned", "LLMAPIError", "ConversationError"}

C21_Witness ==
    /\ reply.status = "returned"
    /\ reply.text = "completion"
    /\ reply.retrieval.status = "raised"
    /\ reply.retrieval.failed = "embed"
    /\ reply.calls[4] = "generate_chat_completion"

(***************************************************************************)
(* Claims about MemoryManager                                              *)
(***************************************************************************)
SystemMessage == ChatMessage("system", system_prompt)
SystemCost == IF Truthy(system_prompt) THEN count_message_tokens(encoder, SystemMessage) ELSE 0
HistoryCost == SumTokens(encoder, ConvertMessages(messages))

\* C1: when the history alone overflows the window and the system prompt
\* fits in it, the total_tokens returned by prepare_context (per-message
\* costs of the returned list plus the structural constant) is at most
\* context_window_tokens.
C1_TotalWithinWindow ==
    (/\ prepared.status = "returned"
     /\ HistoryCost > context_window_tokens
     /\ SystemCost <= context_window_tokens)
    => prepared.total_tokens <= context_window_tokens

\* C8: when the system prompt's own token cost exceeds the window,
\* prepare_context fails with an error instead of returning a message list.
C8_OversizedPromptRaises ==
    (/\ prepared.status # "none"
     /\ Truthy(system_prompt)
     /\ ContentValid(system_prompt)
     /\ SystemCost > context_window_tokens)
    => prepared.status = "raised"

\* the history part of the returned list and the converted live history
Returned == prepared.status = "returned"
SystemCount == IF Truthy(system_prompt) THEN 1 ELSE 0
History == SubSeq(prepared.chat_messages, SystemCount + 1, Len(prepared.chat_messages))
LiveHistory == ConvertMessages(messages)
Budget == context_window_tokens - SystemCost

\* C11: the list returned by prepare_context holds at most max_history
\* messages besides the system prompt, even when the token budget admits
\* more.
C11_AtMostMaxHistory ==
    Returned => Len(prepared.chat_messages) - SystemCount <= max_history

\* the whole live history fits the budget and is longer than max_history
C11_Witness ==
    /\ Returned
    /\ Len(LiveHistory) > max_history
    /\ HistoryCost <= Budget
    /\ Len(History) = max_history

\* C12: when the cost of the most recent non-deleted message fits in
\* context_window_tokens minus the system message's cost, that message is in
\* the returned list and is its last element.
C12_MostRecentIsLast ==
    (/\ Returned
     /\ LiveHistory # <<>>
     /\ count_message_tokens(encoder, LiveHistory[Len(LiveHistory)]) <= Budget)
    => /\ History # <<>>
       /\ History[Len(History)] = LiveHistory[Len(LiveHistory)]

\* the most recent message is kept while an older, different one is cut by
\* max_history
C12_Witness ==
    /\ Returned
    /\ Len(LiveHistory) > max_history
    /\ HistoryCost <= Budget
    /\ LiveHistory[1] # LiveHistory[Len(LiveHistory)]
    /\ History # <<>>
    /\ History[Len(History)] = LiveHistory[Len(LiveHistory)]

\* what C13 says besides the content of the system message: it comes first,
\* the manager adds no other system message, and the history is selected
\* against context_window_tokens minus the system message's cost
SystemFirstAndBudgeted ==
    /\ prepared.chat_messages # <<>>
    /\ prepared.chat_messages[1].role = "system"
    /\ \A i \in 2..Len(prepared.chat_messages) : prepared.chat_messages[i].role # "system"
    /\ History = apply_truncation_strategy(
                     encoder, LiveHistory,
                     context_window_tokens
                        - count_message_tokens(encoder, prepared.chat_messages[1]),
                     max_history)

\* C13 as stated: with a non-empty system prompt the first element of the
\* result is the system message with exactly that prompt, no other system
\* message is inserted, and the history budget is context_window_tokens
\* minus the system message's cost.
C13_ExactPromptFirst ==
    (Returned /\ Truthy(system_prompt))
    => /\ SystemFirstAndBudgeted
       /\ prepared.chat_messages[1].content = system_prompt

\* C13 amended: the content of the system message is the prompt with its
\* leading and trailing whitespace stripped.
C13_StrippedPromptFirst ==
    (Returned /\ Truthy(system_prompt))
    => /\ SystemFirstAndBudgeted
       /\ prepared.chat_messages[1].content = strip(system_prompt)

\* a padded prompt, and a history that the reserved system cost cuts short
C13_Witness ==
    /\ Returned /\ Truthy(system_prompt)
    /\ system_prompt.pad > 0
    /\ prepared.chat_messages[1].content = strip(system_prompt)
    /\ History # <<>>
    /\ Len(History) < Len(LiveHistory)
    /\ Len(History) < max_history
    /\ HistoryCost <= context_window_tokens

\* C20: no MemoryManager operation changes a field (content, token_count,
\* role) of a message object passed to it: the caller's messages are the
\* same after the call as before.
C20_MessagesUntouched ==
    [][history' = history]_vars

(***************************************************************************)
(* Claims about chunk_text                                                 *)
(***************************************************************************)
Chunks == chunked.chunks
NoWhitespace == \A i \in 1..Len(text) : text[i] # " "
NoPeriod == \A i \in 1..Len(text) : text[i] # "."
CapNotReached == Len(Chunks) < MAX_CHUNKS_PER_ARTICLE
StartsIncrease == \A i \in 1..(Len(Chunks) - 1) : Chunks[i].start_pos < Chunks[i + 1].start_pos
Covered(p) == \E i \in 1..Len(Chunks) : Chunks[i].start_pos <= p /\ p < Chunks[i].end_pos

\* C2: for a text longer than CHUNK_SIZE the chunks are ordered by
\* non-decreasing start_pos, consecutive chunks are contiguous or overlapping
\* (next.start_pos <= previous.end_pos) and the spans cover every character
\* position.  Stated here for the runs in which no window is dropped as
\* whitespace and the chunk cap is not reached, where it fails all the same.
C2_ContiguousAndCovering ==
    (/\ chunked.status = "returned"
     /\ Len(text) > CHUNK_SIZE
     /\ NoWhitespace
     /\ CapNotReached)
    => /\ \A i \in 1..(Len(Chunks) - 1) :
            /\ Chunks[i].start_pos <= Chunks[i + 1].start_pos
            /\ Chunks[i + 1].start_pos <= Chunks[i].end_pos
       /\ \A p \in 0..(Len(text) - 1) : Covered(p)

\* The 1400 / 600 / 100 / 15 scenario at the model's scale: the text is two
\* chunk sizes plus two overlaps long, the overlap is positive and at most
\* half a chunk, and the cap admits three chunks.
Scenario ==
    /\ chunked.status = "returned"
    /\ CHUNK_OVERLAP >= 1
    /\ 2 * CHUNK_OVERLAP <= CHUNK_SIZE
    /\ Len(text) = 2 * CHUNK_SIZE + 2 * CHUNK_OVERLAP
    /\ MAX_CHUNKS_PER_ARTICLE >= 3

ThreeChunksToTheEnd ==
    /\ Len(Chunks) = 3
    /\ StartsIncrease
    /\ Chunks[Len(Chunks)].end_pos = Len(text)

C17_ShortTextOneChunk ==
    (chunked.status = "returned" /\ Len(text) <= CHUNK_SIZE)
    => /\ Len(Chunks) = 1
       /\ Chunks[1].chunk_id = 0
       /\ Chunks[1].start_pos = 0
       /\ Chunks[1].end_pos = Len(text)
       /\ Chunks[1].text = text

\* a short text that stripping would change
C17_Witness ==
    /\ chunked.status = "returned"
    /\ Len(text) <= CHUNK_SIZE
    /\ Len(text) >= 2
    /\ text[1] = " "
    /\ Chunks[1].text = text

PositionsAndIds ==
    \A i \in 1..Len(Chunks) :
        /\ 0 <= Chunks[i].start_pos
        /\ Chunks[i].start_pos < Chunks[i].end_pos
        /\ Chunks[i].end_pos <= Len(text)
        /\ Chunks[i].chunk_id = i - 1

\* C18: for every text, the empty one included, every chunk has
\* 0 <= start_pos < end_pos <= len(text) and the chunk_id values are
\* 0, 1, 2, ... in list order.
C18_PositionsAndIdsAnyText ==
    chunked.status = "returned" => PositionsAndIds

(***************************************************************************)
(* Claims about VectorStore and retrieve_context                            *)
(***************************************************************************)
Range(seq) == {seq[i] : i \in 1..Len(seq)}
Retrieved == last.op = "retrieve"

\* C3: in every state reachable through the store's operations (adds with
\* as many chunks as vectors, saves that may be interrupted between the two
\* files, construction from whatever is on disk) the index holds as many
\* vectors as there are chunks, and slot i's vector is the one added with
\* slot i's chunk.
C3_IndexMatchesMetadata ==
    /\ ntotal(index) = Len(metadata)
    /\ \A i \in 1..ntotal(index) : index.vecs[i] = normalize_L2(Encode(metadata[i].text))

\* C5: when the fetch, the passage embedding, the add or the persist step
\* of the re-index attempt fails, retrieve_context does not raise and returns
\* the first search's results filtered by MIN_SIMILARITY_THRESHOLD.
C5_ReindexFailureSwallowed ==
    (Retrieved /\ last.failed \in {"fetch", "embed", "add", "save"})
    => /\ last.status = "returned"
       /\ [chunks |-> last.chunks, scores |-> last.scores]
              = FilterByThreshold(ResultChunks(last.first), ResultScores(last.first))

\* C6: the pair returned by retrieve_context has equal lengths, at most
\* TOP_K_RETRIEVAL entries, every score >= MIN_SIMILARITY_THRESHOLD, scores
\* in non-increasing order, and is the order-preserving subsequence of the
\* last search's results whose score reaches the threshold.
C6_FilteredResult ==
    (Retrieved /\ last.status = "returned")
    => LET kept == SelectSeq(last.searched, LAMBDA r : r.score >= MIN_SIMILARITY_THRESHOLD)
       IN /\ Len(last.chunks) = Len(last.scores)
          /\ Len(last.chunks) <= TOP_K_RETRIEVAL
          /\ \A i \in 1..Len(last.scores) : last.scores[i] >= MIN_SIMILARITY_THRESHOLD
          /\ \A i, j \in 1..Len(last.scores) : i < j => last.scores[i] >= last.scores[j]
          /\ last.chunks = ResultChunks(kept)
          /\ last.scores = ResultScores(kept)

\* a retrieval that re-indexed, searched again and kept some but not all of
\* what the second search found
C6_Witness ==
    /\ Retrieved /\ last.status = "returned"
    /\ last.fetched # <<>>
    /\ last.chunks # <<>>
    /\ Len(last.chunks) < Len(last.searched)

\* C7: add_embeddings fails whenever the vectors' dimension differs from the
\* index's or the number of vectors differs from the number of chunks, and
\* then changes neither the index nor the chunk list.
C7_BadAddRejected ==
    [][(/\ last'.op = "add"
        /\ (last'.dim # index.d \/ last'.nvecs # last'.nchunks))
       => (/\ last'.status = "raised"
           /\ index' = index
           /\ metadata' = metadata)]_vars

\* C9: a retrieve_context call that starts from an empty store, fetches
\* n >= 1 chunks and returns leaves exactly n vectors and n chunks in the
\* store, and returns only chunks among those n, each with a score
\* >= MIN_SIMILARITY_THRESHOLD.
C9_EmptyIndexHoldsFetched ==
    [][(/\ last'.op = "retrieve" /\ last'.status = "returned"
        /\ ntotal(index) = 0 /\ metadata = <<>>
        /\ last'.fetched # <<>>)
       => (/\ get_stats(index', metadata').total_chunks = Len(last'.fetched)
           /\ get_stats(index', metadata').metadata_count = Len(last'.fetched)
           /\ \A i \in 1..Len(last'.chunks) :
                  /\ last'.chunks[i] \in Range(last'.fetched)
                  /\ last'.scores[i] >= MIN_SIMILARITY_THRESHOLD)]_vars

\* the store holds exactly what a returning retrieval fetched, and the
\* retrieval returned some of it
C9_Witness ==
    /\ Retrieved /\ last.status = "returned"
    /\ last.first = <<>>
    /\ Len(last.fetched) = MaxBatch
    /\ metadata = last.fetched
    /\ ntotal(index) = Len(last.fetched)
    /\ last.chunks # <<>>

\* C4: with several threads calling add_embeddings, search and clear on the
\* shared store, no call starts in a state where the number of stored vectors
\* differs from the number of chunks, and no search reads a slot that has no
\* chunk (which ends the search with an IndexError).
C4_NoTornStateVisible ==
    \A t \in Threads :
        /\ ~local[t].torn
        /\ local[t].status # "raised"
        /\ pc[t] = "search_read" =>
               \A j \in 1..Len(local[t].hits) : local[t].hits[j].slot <= Len(metadata)

\* the score search gives the entry in slot i for the query of the last call
ScoreOf(i) == InnerProduct(normalize_L2(Encode(last'.query)), index.vecs[i])

\* C14: on a store of n >= 0 entries (n vectors paired with n chunks) and
\* for k >= 1, search with a query of the store's dimension returns exactly
\* min(k, n) (chunk, score) pairs in non-increasing score order, which are
\* the highest-scoring entries (the empty list when n = 0, without
\* raising), and leaves the index and the chunk list unchanged.
C14_SearchTopK ==
    [][(/\ last'.op = "search"
        /\ ntotal(index) = Len(metadata)
        /\ last'.dim = index.d)
       => LET res == last'.searched
              m == Min2(last'.nvecs, ntotal(index))
          IN /\ last'.status = "returned"
             /\ Len(res) = m
             /\ \A i, j \in 1..m : i < j => res[i].score >= res[j].score
             /\ \E o \in [1..m -> 1..ntotal(index)] :
                   /\ \A i, j \in 1..m : i # j => o[i] # o[j]
                   /\ \A j \in 1..m : /\ res[j].chunk = metadata[o[j]]
                                       /\ res[j].score = ScoreOf(o[j])
                   /\ \A i \in 1..ntotal(index) :
                         (\A j \in 1..m : o[j] # i) =>
                            \A j \in 1..m : ScoreOf(i) <= res[j].score
             /\ index' = index
             /\ metadata' = metadata]_vars

\* a search with k below the number of entries that left out an entry
\* scoring lower than everything it returned, the best entry not being in
\* the first slot
C14_Witness ==
    /\ last.op = "search" /\ last.status = "returned"
    /\ ntotal(index) = Len(metadata)
    /\ last.nvecs < ntotal(index)
    /\ Len(last.searched) = last.nvecs
    /\ last.searched[1].chunk # metadata[1]
    /\ \E i \in 1..Len(metadata) :
          Cosine(last.query, metadata[i].text) < last.searched[Len(last.searched)].score

Titles(chunks) == {chunks[i].title : i \in 1..Len(chunks)}
Stats == get_stats(index, metadata)
StatsAfter == get_stats(index', metadata')

\* C19: get_stats follows the adds and clears.  An add_embeddings call that
\* returns raises total_chunks by the number of chunks it was given and
\* makes unique_articles the number of distinct titles among the chunks
\* held before and those given; one that raises changes neither; after
\* clear both are 0, whatever the state before.  From the empty store these
\* steps give, after any sequence of adds and clears, the number of chunks
\* added since the last clear and the number of distinct titles among them.
C19_StatsFollowAddsAndClears ==
    [][/\ (last'.op = "add" /\ last'.status = "returned")
          => /\ StatsAfter.total_chunks = Stats.total_chunks + Len(last'.fetched)
             /\ StatsAfter.unique_articles
                   = Cardinality(Titles(metadata) \cup Titles(last'.fetched))
       /\ (last'.op = "add" /\ last'.status = "raised") => StatsAfter = Stats
       /\ last'.op = "clear"
          => /\ StatsAfter.total_chunks = 0
             /\ StatsAfter.unique_articles = 0]_vars

\* after a second add the store holds chunks of two articles, more chunks
\* than the last call added
C19_Witness ==
    /\ last.op = "add" /\ last.status = "returned"
    /\ Stats.total_chunks = Len(metadata)
    /\ Stats.total_chunks > Len(last.fetched)
    /\ Stats.unique_articles = 2
    /\ Cardinality(Titles(last.fetched)) = 1

(***************************************************************************)
(* Claims about format_context                                             *)
(***************************************************************************)
Formatted == formatted.status = "returned"

\* summed lengths of the blocks of the first m chunks
RECURSIVE BlockLengths(_)
BlockLengths(m) ==
    IF m = 0 THEN 0
    ELSE BlockLengths(m - 1) + Len(ChunkContent(m, format_chunks[m]))

\* the longest prefix whose blocks together stay within MAX_CONTEXT_LENGTH
LongestPrefix ==
    CHOOSE m \in 0..Len(format_chunks) :
        /\ BlockLengths(m) <= MAX_CONTEXT_LENGTH
        /\ \A n \in (m + 1)..Len(format_chunks) : BlockLengths(n) > MAX_CONTEXT_LENGTH

\* the blocks of the first m chunks, a newline between one block and the next
RECURSIVE Reference(_)
Reference(m) ==
    IF m = 0 THEN <<>>
    ELSE IF m = 1 THEN ChunkContent(1, format_chunks[1])
    ELSE Reference(m - 1) \o <<"\n">> \o ChunkContent(m, format_chunks[m])

\* C15: format_context returns the sentinel string for the empty list, and
\* otherwise the numbered blocks of the longest prefix of the chunks whose
\* summed block lengths stay <= MAX_CONTEXT_LENGTH, joined by a blank line;
\* no chunk after the first overflowing one is included.
C15_LongestPrefixBlocks ==
    Formatted =>
        formatted.output = IF format_chunks = <<>> THEN NoContext
                           ELSE Reference(LongestPrefix)

\* the call stopped at an overflowing chunk although a later chunk would
\* still have fitted
C15_Witness ==
    /\ Formatted
    /\ formatted.included >= 1
    /\ formatted.included + 1 < Len(format_chunks)
    /\ \E j \in (formatted.included + 2)..Len(format_chunks) :
          BlockLengths(formatted.included) + Len(ChunkContent(j, format_chunks[j]))
             <= MAX_CONTEXT_LENGTH
    /\ formatted.output = Reference(formatted.included)

\* the source header and the two newlines of the block of chunk i
Overhead(i) == Len(SourceInfo(i, format_chunks[i])) + 2

FirstGoodEnough(r) ==
    /\ r.first # <<>>
    /\ MaxOf(ResultScores(r.first)) >= auto_index_threshold

\* the first search of the retrieval raised (the second search is made only
\* after a fetch that gave chunks)
FirstSearchRaised(r) ==
    r.status = "raised" /\ r.failed = "search" /\ r.fetched = <<>>

\* C24: one retrieve_context call makes its steps in the order of Steps, each
\* at most once: the query embedding and the first search always; the fetch
\* only if the first result is empty or its best score is below the
\* auto-indexing threshold; after a fetch that gave chunks one passage
\* embedding, one add, one persist and one second search (all four when the
\* call returns, those before the failing one when it raises); after a fetch
\* that gave nothing none of them.
C24_StepsInOrder ==
    Retrieved =>
        LET n == Len(last.steps)
        IN /\ n \in 2..Len(Steps)
           /\ last.steps = SubSeq(Steps, 1, n)
           /\ (n >= 3) <=> (~FirstSearchRaised(last) /\ ~FirstGoodEnough(last))
           /\ (n >= 3 /\ last.fetched = <<>>) => n = 3
           /\ n > 3 => last.fetched # <<>>
           /\ (last.fetched # <<>> /\ last.status = "returned") => n = Len(Steps)
           /\ (last.status = "raised") =>
                  Steps[n] = (CASE last.failed = "search" -> "search"
                                [] last.failed = "fetch" -> "retrieve_and_chunk"
                                [] last.failed = "embed" -> "embed_passages"
                                [] last.failed = "add" -> "add_embeddings"
                                [] last.failed = "save" -> "save_index")

\* a retrieval whose first search found something below the auto-indexing
\* threshold, fetched chunks and made every step
C24_Witness ==
    /\ Retrieved /\ last.status = "returned"
    /\ last.first # <<>>
    /\ last.fetched # <<>>
    /\ last.steps = Steps

\* C25: a retrieve_context call whose first search finds something with a
\* best score that reaches the auto-indexing threshold calls neither the
\* fetcher nor the passage embedder and leaves the index, the chunk list and
\* the two files as they were.
C25_GoodFirstSearchChangesNothing ==
    [][(last'.op = "retrieve" /\ FirstGoodEnough(last'))
       => (/\ last'.steps = <<"embed_query", "search">>
           /\ last'.fetched = <<>>
           /\ index' = index
           /\ metadata' = metadata
           /\ index_file' = index_file
           /\ metadata_file' = metadata_file)]_vars

\* such a call on a store that holds more than it has saved, with room for
\* a fetch
C25_Witness ==
    /\ Retrieved /\ last.status = "returned"
    /\ FirstGoodEnough(last)
    /\ Len(last.first) = TOP_K_RETRIEVAL
    /\ \E i \in 1..Len(last.first) : last.first[i].score < auto_index_threshold
    /\ ntotal(index) < MaxStored
    /\ index_file.vecs # index.vecs

\* C26: chunk_text terminates for every text and every configuration with
\* CHUNK_SIZE >= 1 and CHUNK_OVERLAP >= 0, also when the overlap is not
\* smaller than the size: every pass of the loop moves the window start
\* strictly forward, and the call returns.
C26_LoopTerminates ==
    /\ [][(loop.pc = "while" /\ loop'.pc = "while") => loop'.start > loop.start]_vars
    /\ <>(loop.pc = "done" /\ chunked.status = "returned")

\* a call with an overlap not smaller than the size that has made more than
\* one pass, dropped a window and returned
C26_Witness ==
    /\ loop.pc = "done"
    /\ CHUNK_OVERLAP >= CHUNK_SIZE
    /\ loop.windows > 1
    /\ loop.dropped >= 1
    /\ chunked.chunks # <<>>

\* C27: chunk_text returns at most MAX_CHUNKS_PER_ARTICLE chunks; a window
\* that is empty after strip() produces no chunk and does not count toward
\* the cap: chunk_id is the number of chunks made so far, whatever was
\* dropped, and a loop that ends with fewer chunks than the cap has gone
\* through the whole text.
C27_CapCountsChunksOnly ==
    /\ loop.chunk_id = Len(loop.chunks)
    /\ loop.windows = Len(loop.chunks) + loop.dropped
    /\ Len(loop.chunks) <= MAX_CHUNKS_PER_ARTICLE
    /\ \A i \in 1..Len(loop.chunks) : loop.chunks[i].text # <<>>
    /\ chunked.status = "returned" => Len(chunked.chunks) <= MAX_CHUNKS_PER_ARTICLE
    /\ (loop.pc = "done" /\ Len(text) > CHUNK_SIZE
           /\ Len(chunked.chunks) < MAX_CHUNKS_PER_ARTICLE)
          => loop.start >= Len(text)

\* a call that dropped a window and still filled the cap
C27_Witness ==
    /\ loop.pc = "done"
    /\ MAX_CHUNKS_PER_ARTICLE >= 2
    /\ loop.dropped >= 1
    /\ Len(chunked.chunks) = MAX_CHUNKS_PER_ARTICLE
    /\ loop.windows > MAX_CHUNKS_PER_ARTICLE

\* the input messages that are not flagged is_deleted, oldest first
Live == SelectSeq(messages, LAMBDA m : ~m.is_deleted)

\* C28: the history part of prepare_context's result is the last n of the
\* non-deleted input messages, in their order, as chat messages; when an
\* older non-deleted message is left out, either max_history is reached or
\* that message does not fit what is left of the budget.
C28_HistoryIsLiveSuffix ==
    Returned =>
        LET n == Len(History)
            m == Len(Live)
        IN /\ n <= m
           /\ \A i \in 1..n :
                  History[i] = ChatMessage(Live[m - n + i].role, Live[m - n + i].content)
           /\ n < m =>
                  \/ n = max_history
                  \/ SumTokens(encoder, History)
                       + count_message_tokens(encoder,
                             ChatMessage(Live[m - n].role, Live[m - n].content)) > Budget

\* a deleted message lies between two live ones, and the older live one is
\* left out for the budget, not for max_history
C28_Witness ==
    /\ Returned
    /\ Len(messages) = 3
    /\ messages[2].is_deleted
    /\ Len(Live) = 2
    /\ Len(History) = 1
    /\ max_history > 1

\* the retrieval of the generate_response call that has just been made got
\* as far as add_embeddings
AddReached(r) == Len(r.steps) >= 5

\* C29: over the bot's retrieve_context calls, with no clear between them,
\* the number of stored chunks never decreases; a call whose re-index
\* attempt adds its n fetched chunks appends exactly those n, whatever the
\* store already holds, and a call that adds nothing leaves the store as it
\* was.
C29_StoredChunksOnlyGrow ==
    [][reply'.retrieval.op = "retrieve" =>
          /\ Len(metadata') >= Len(metadata)
          /\ ntotal(index') >= ntotal(index)
          /\ AddReached(reply'.retrieval) =>
                 /\ reply'.retrieval.fetched # <<>>
                 /\ metadata' = metadata \o reply'.retrieval.fetched
                 /\ ntotal(index') = ntotal(index) + Len(reply'.retrieval.fetched)
          /\ ~AddReached(reply'.retrieval) =>
                 /\ metadata' = metadata
                 /\ index' = index]_vars

\* a query that found something below the auto-indexing threshold has
\* stored chunks the store already held
C29_Witness ==
    /\ reply.retrieval.op = "retrieve"
    /\ reply.retrieval.status = "returned"
    /\ reply.retrieval.first # <<>>
    /\ AddReached(reply.retrieval)
    /\ LET old == Len(metadata) - Len(reply.retrieval.fetched)
       IN \E i \in 1..old : \E j \in (old + 1)..Len(metadata) : metadata[i] = metadata[j]

\* C30: every chunk chunk_text returns spans at most CHUNK_SIZE +
\* CHUNK_OVERLAP characters, its text is no longer than its span, and the
\* text is the span's slice of the input, with surrounding whitespace
\* stripped when it comes from the loop.
C30_SpanAndTextBounded ==
    chunked.status = "returned" =>
        \A i \in 1..Len(Chunks) :
            LET c == Chunks[i]
                slice == Slice(text, c.start_pos, c.end_pos)
            IN /\ c.end_pos - c.start_pos <= CHUNK_SIZE + CHUNK_OVERLAP
               /\ Len(c.text) <= c.end_pos - c.start_pos
               /\ c.text = (IF Len(text) <= CHUNK_SIZE THEN slice ELSE strip_text(slice))

\* a chunk that ends at a sentence end inside the overlap region, as long as
\* a span can be, with a text shorter than its span
C30_Witness ==
    /\ chunked.status = "returned"
    /\ CHUNK_OVERLAP >= 1
    /\ \E i \in 1..Len(Chunks) :
           /\ Chunks[i].end_pos - Chunks[i].start_pos = CHUNK_SIZE + CHUNK_OVERLAP
           /\ Len(Chunks[i].text) < Chunks[i].end_pos - Chunks[i].start_pos
====
